---- MODULE Spec2Model ----
(***************************************************************************)
(* Multi-tenant folder tree (wksn753/filesystem).                          *)
(*                                                                         *)
(* The database is the state: Tenant, TenantMember, Folder, File and       *)
(* FileVersion rows.  Every HTTP handler is a request of one user that     *)
(* moves through the handler's awaits, one database statement per step,    *)
(* so that the statements of two requests interleave as they do on the     *)
(* server.  Strings of the program (uuids, names, ltree text) are          *)
(* sequences of one-character strings.  Timestamps (createdAt, updatedAt)  *)
(* are not modelled.                                                       *)
(***************************************************************************)
EXTENDS Integers, Sequences, FiniteSets, TLC

VARIABLES
    tenants,       \* Tenant rows      [id, name, rootFolderId]
    members,       \* TenantMember rows [userId, tenantId, role]
    folders,       \* Folder rows      [id, name, parentId, tenantId, path]
    files,         \* File rows        [id, name, folderId, tenantId]
    fileVersions,  \* FileVersion rows [id, fileId]
    reqs,          \* the request each user has in flight
    nextTenant,    \* uuids handed out so far, per generator
    nextFolder,
    nextFile

vars == <<tenants, members, folders, files, fileVersions, reqs,
          nextTenant, nextFolder, nextFile>>

dbVars == <<tenants, members, folders, files, fileVersions>>

-----------------------------------------------------------------------------
(* Bounds *)

\* folders createSubfolder may add to the roots, and files upload may add
MaxFolders == 2
MaxFiles == 1

Users == {"u1", "u2"}

\* request bodies: names as the client sends them (untrimmed)
RawNames == {<<"a">>, <<"b">>, <<" ", "a">>, <<" ">>}
TenantNames == {<<"x">>, <<"y">>}
FileNames == {<<"f">>}

-----------------------------------------------------------------------------
(* Values *)

NULL == <<>>

HexDigits == <<"0", "1", "2", "3", "4", "5", "6", "7", "8", "9",
               "a", "b", "c", "d", "e", "f">>

\* A uuid is groups of hex digits joined by hyphens; the model keeps two
\* groups.  Each generator (Prisma's uuid() default for Tenant and File,
\* gen_random_uuid() and crypto.randomUUID() for Folder) never repeats a value
\* and no two generators collide.
Uuid(group, k) == <<group, HexDigits[(k \div 16) + 1], "-", HexDigits[(k % 16) + 1]>>

TenantUuid(k) == Uuid("a", k)
FolderUuid(k) == Uuid("f", k)
FileUuid(k) == Uuid("d", k)
VersionUuid(k) == Uuid("e", k)


\* HTTP outcomes of the handlers
OK == "200"
CREATED == "201"
BAD_REQUEST == "400"
TENANT_ACCESS_DENIED == "403 TENANT_ACCESS_DENIED"
INSUFFICIENT_PERMISSIONS == "403 INSUFFICIENT_PERMISSIONS"
CANNOT_DELETE_ROOT == "403 Cannot delete root folder."
NOT_FOUND == "404"
CONFLICT == "409"
SERVER_ERROR == "500"

-----------------------------------------------------------------------------
(* Strings *)

RECURSIVE replaceHyphens(_)
\* String.prototype.replace(/-/g, "_")
replaceHyphens(s) ==
    IF s = <<>> THEN <<>>
    ELSE <<(IF Head(s) = "-" THEN "_" ELSE Head(s))>> \o replaceHyphens(Tail(s))

RECURSIVE trimStart(_)
trimStart(s) ==
    IF s # <<>> /\ Head(s) = " " THEN trimStart(Tail(s)) ELSE s

RECURSIVE trimEnd(_)
trimEnd(s) ==
    IF s # <<>> /\ s[Len(s)] = " " THEN trimEnd(SubSeq(s, 1, Len(s) - 1)) ELSE s

\* String.prototype.trim()
trim(s) == trimEnd(trimStart(s))

\* a validation that lets every name through
nameInvalidNever(name) == FALSE

\* !name || name.trim() === ""
nameInvalid(name) == name = <<>> \/ trim(name) = <<>>

-----------------------------------------------------------------------------
(* ltree: a path is a sequence of labels; its text form joins them by "." *)

RECURSIVE LtreeToText(_)
\* path::text
LtreeToText(p) ==
    IF p = <<>> THEN <<>>
    ELSE IF Len(p) = 1 THEN p[1]
    ELSE p[1] \o <<".">> \o LtreeToText(Tail(p))

RECURSIVE SplitDots(_, _)
SplitDots(t, cur) ==
    IF t = <<>> THEN <<cur>>
    ELSE IF Head(t) = "." THEN <<cur>> \o SplitDots(Tail(t), <<>>)
    ELSE SplitDots(Tail(t), Append(cur, Head(t)))

\* text::ltree
TextToLtree(t) == IF t = <<>> THEN <<>> ELSE SplitDots(t, <<>>)

nlevel(p) == Len(p)

\* a <@ b : a is b or a descendant of b
IsDescendantOrEqual(a, b) ==
    /\ Len(b) <= Len(a)
    /\ SubSeq(a, 1, Len(b)) = b

\* a @> b : a is b or an ancestor of b
IsAncestorOrEqual(a, b) == IsDescendantOrEqual(b, a)

\* the characters of a path::text in the order of their codes
PathChars == <<"-", ".">> \o SubSeq(HexDigits, 1, 10) \o <<"_">> \o SubSeq(HexDigits, 11, 16)

\* the rank of each character in that order
CharCode ==
    [c \in {PathChars[i] : i \in 1..Len(PathChars)} |->
        CHOOSE i \in 1..Len(PathChars) : PathChars[i] = c]

RECURSIVE TextLess(_, _)
\* x < y on text, character by character by code; a proper prefix comes first
TextLess(x, y) ==
    IF x = <<>> THEN y # <<>>
    ELSE IF y = <<>> THEN FALSE
    ELSE IF Head(x) # Head(y) THEN CharCode[Head(x)] < CharCode[Head(y)]
    ELSE TextLess(Tail(x), Tail(y))

-----------------------------------------------------------------------------
(* Rows and constraints of the schema *)

FolderIds == {f.id : f \in folders}
TenantIds == {t.id : t \in tenants}

FolderById(id) == CHOOSE f \in folders : f.id = id

\* the schema without Folder_parentId_fkey
FolderInsertAllowedNoParentKey(row) ==
    /\ row.id \notin FolderIds
    /\ \/ row.parentId = NULL
       \/ ~\E f \in folders : /\ f.parentId = row.parentId
                              /\ f.name = row.name
                              /\ f.tenantId = row.tenantId
    /\ row.tenantId \in TenantIds

\* the schema before Folder_parentId_name_tenantId_key was added
FolderInsertAllowedNoUniqueIndex(row) ==
    /\ row.id \notin FolderIds
    /\ row.parentId = NULL \/ row.parentId \in FolderIds
    /\ row.tenantId \in TenantIds

\* Folder_pkey, Folder_parentId_name_tenantId_key (NULL parentId never
\* collides), Folder_parentId_fkey, Folder_tenantId_fkey
FolderInsertAllowed(row) ==
    /\ row.id \notin FolderIds
    /\ \/ row.parentId = NULL
       \/ ~\E f \in folders : /\ f.parentId = row.parentId
                              /\ f.name = row.name
                              /\ f.tenantId = row.tenantId
    /\ row.parentId = NULL \/ row.parentId \in FolderIds
    /\ row.tenantId \in TenantIds

\* Folder_parentId_name_tenantId_key on UPDATE of name
FolderRenameAllowed(f, name) ==
    \/ f.parentId = NULL
    \/ ~\E g \in folders : /\ g.id # f.id
                           /\ g.parentId = f.parentId
                           /\ g.name = name
                           /\ g.tenantId = f.tenantId

roleHierarchy(role) ==
    CASE role = "SUPER_ADMIN" -> 3
      [] role = "TENANT_ADMIN" -> 2
      [] role = "USER" -> 1

\* the middleware without its role hierarchy check
requireTenantAccessMembershipOnly(u, tenantId, requiredRole) ==
    LET membership == {m \in members : m.userId = u /\ m.tenantId = tenantId}
    IN  IF tenantId = NULL THEN BAD_REQUEST
        ELSE IF membership = {} THEN TENANT_ACCESS_DENIED
        ELSE "next"

\* requireTenantAccess(requiredRole): the outcome of the middleware for user u
\* on the tenant of the URL; "next" lets the handler run
requireTenantAccess(u, tenantId, requiredRole) ==
    LET membership == {m \in members : m.userId = u /\ m.tenantId = tenantId}
    IN  IF tenantId = NULL THEN BAD_REQUEST
        ELSE IF membership = {} THEN TENANT_ACCESS_DENIED
        ELSE IF /\ requiredRole # "undefined"
                /\ \E m \in membership :
                       roleHierarchy(m.role) < roleHierarchy(requiredRole)
             THEN INSUFFICIENT_PERMISSIONS
        ELSE "next"

-----------------------------------------------------------------------------
(* Requests *)

\* tenantId, folderId (parentId of a create) and name are the handler's inputs;
\* path, parentId and txFiles are what it has read or staged so far
Idle == [op |-> "idle", pc |-> "idle", tenantId |-> NULL, folderId |-> NULL,
         name |-> <<>>, path |-> <<>>, parentId |-> NULL, txFiles |-> {},
         res |-> "none", count |-> 0, userId |-> NULL, role |-> "none"]

Start(u, op, pc, tenantId, folderId, name) ==
    [Idle EXCEPT !.op = op, !.pc = pc, !.tenantId = tenantId,
                 !.folderId = folderId, !.name = name]

\* the response; the handler's locals are gone
Finish(r, res) ==
    [Idle EXCEPT !.op = r.op, !.pc = "done", !.res = res, !.tenantId = r.tenantId,
                 !.folderId = r.folderId, !.name = r.name]

\* the response has been sent; the user may send the next request
Respond(u) ==
    /\ reqs[u].pc = "done"
    /\ reqs' = [reqs EXCEPT ![u] = Idle]
    /\ UNCHANGED <<dbVars, nextTenant, nextFolder, nextFile>>

-----------------------------------------------------------------------------
(* POST /tenants and POST /tenants/:tenantId/join *)

\* uuids reserved by the creates in flight, so that each can mint its id
CreatesInFlight ==
    Cardinality({u \in Users : reqs[u].op = "create" /\ reqs[u].pc # "done"})

TenantRow(tenantId, name, rootFolderId) ==
    [id |-> tenantId, name |-> name, rootFolderId |-> rootFolderId]

\* the root folder with the path made of its name
RootFolderRowPathFromName(rootFolderId, tenantId, safePath) ==
    [id |-> rootFolderId, name |-> <<"r", "o", "o", "t">>, parentId |-> NULL,
     tenantId |-> tenantId, path |-> TextToLtree(<<"r", "o", "o", "t">>)]

\* INSERT INTO "Folder" VALUES (gen_random_uuid(), 'root', NULL, tenant.id, safePath::ltree)
RootFolderRow(rootFolderId, tenantId, safePath) ==
    [id |-> rootFolderId, name |-> <<"r", "o", "o", "t">>, parentId |-> NULL,
     tenantId |-> tenantId, path |-> TextToLtree(safePath)]

MemberRow(userId, tenantId, role) ==
    [userId |-> userId, tenantId |-> tenantId, role |-> role]

\* The handler of POST /tenants: name check, then one transaction that
\* inserts the tenant, its root folder (path = the tenant id made ltree-safe),
\* the rootFolderId reference and the creator's TENANT_ADMIN membership.
CreateTenant(u, rawName) ==
    LET trimmedName == trim(rawName)
        tenantId == TenantUuid(nextTenant + 1)
        rootFolderId == FolderUuid(nextFolder + 1)
        safePath == replaceHyphens(tenantId)
    IN  /\ reqs[u].pc = "idle"
        /\ ~nameInvalid(rawName)
        /\ ~\E t \in tenants : t.name = trimmedName
        /\ tenants' = tenants \cup {TenantRow(tenantId, trimmedName, rootFolderId)}
        /\ folders' = folders \cup {RootFolderRow(rootFolderId, tenantId, safePath)}
        /\ members' = members \cup {MemberRow(u, tenantId, "TENANT_ADMIN")}
        /\ nextTenant' = nextTenant + 1
        /\ nextFolder' = nextFolder + 1
        /\ UNCHANGED <<files, fileVersions, reqs, nextFile>>

\* The same handler await by await, for requests that run concurrently.
\* Validation of the body, before the first await.
TenantCreateBegin(u, rawName) ==
    LET r == Start(u, "createTenant", "findUnique", NULL, NULL, trim(rawName))
    IN  /\ reqs[u].pc = "idle"
        /\ reqs' = [reqs EXCEPT ![u] =
              IF nameInvalid(rawName) THEN Finish(r, BAD_REQUEST) ELSE r]
        /\ UNCHANGED <<dbVars, nextTenant, nextFolder, nextFile>>

\* tenant.findUnique({ where: { name: trimmedName } })
TenantCreateFindUnique(u) ==
    LET r == reqs[u]
    IN  /\ r.op = "createTenant" /\ r.pc = "findUnique"
        /\ reqs' = [reqs EXCEPT ![u] =
              IF \E t \in tenants : t.name = r.name
              THEN Finish(r, CONFLICT)
              ELSE [r EXCEPT !.pc = "insertTenant"]]
        /\ UNCHANGED <<dbVars, nextTenant, nextFolder, nextFile>>

\* Tenant_name_key
TenantInsertAllowed(name) == ~\E t \in tenants : t.name = name

\* transactions that have inserted a tenant of this name and not yet committed
TenantInsertsPending(name) ==
    {v \in Users : reqs[v].op = "createTenant" /\ reqs[v].pc = "commit"
                   /\ reqs[v].name = name}

\* the tenant row written outside any transaction, visible at once
TenantCreateInsertTenantAutocommit(u) ==
    LET r == reqs[u]
        tenantId == TenantUuid(nextTenant + 1)
    IN  /\ r.op = "createTenant" /\ r.pc = "insertTenant"
        /\ TenantInsertsPending(r.name) = {}
        /\ IF TenantInsertAllowed(r.name)
           THEN /\ reqs' = [reqs EXCEPT ![u] = [r EXCEPT !.pc = "commit",
                                                         !.tenantId = tenantId]]
                /\ tenants' = tenants \cup {TenantRow(tenantId, r.name, NULL)}
                /\ nextTenant' = nextTenant + 1
           ELSE /\ reqs' = [reqs EXCEPT ![u] = Finish(r, SERVER_ERROR)]
                /\ UNCHANGED <<tenants, nextTenant>>
        /\ UNCHANGED <<members, folders, files, fileVersions, nextFolder, nextFile>>

\* First statement of the transaction: tx.tenant.create(). The row stays
\* private to the transaction; an insert of a name that another open
\* transaction has inserted waits for that transaction to end, and a name
\* that is committed violates Tenant_name_key, which aborts the transaction.
TenantCreateInsertTenant(u) ==
    LET r == reqs[u]
        tenantId == TenantUuid(nextTenant + 1)
    IN  /\ r.op = "createTenant" /\ r.pc = "insertTenant"
        /\ TenantInsertsPending(r.name) = {}
        /\ IF TenantInsertAllowed(r.name)
           THEN /\ reqs' = [reqs EXCEPT ![u] = [r EXCEPT !.pc = "commit",
                                                         !.tenantId = tenantId]]
                /\ nextTenant' = nextTenant + 1
           ELSE /\ reqs' = [reqs EXCEPT ![u] = Finish(r, SERVER_ERROR)]
                /\ UNCHANGED nextTenant
        /\ UNCHANGED <<dbVars, nextFolder, nextFile>>

\* The rest of the transaction and its commit: the root folder insert, the
\* update of rootFolderId, the creator's TENANT_ADMIN membership.
TenantCreateCommit(u) ==
    LET r == reqs[u]
        rootFolderId == FolderUuid(nextFolder + 1)
        safePath == replaceHyphens(r.tenantId)
    IN  /\ r.op = "createTenant" /\ r.pc = "commit"
        /\ tenants' = {t \in tenants : t.id # r.tenantId}
                         \cup {TenantRow(r.tenantId, r.name, rootFolderId)}
        /\ folders' = folders \cup {RootFolderRow(rootFolderId, r.tenantId, safePath)}
        /\ members' = members \cup {MemberRow(u, r.tenantId, "TENANT_ADMIN")}
        /\ nextFolder' = nextFolder + 1
        /\ reqs' = [reqs EXCEPT ![u] = Finish(r, CREATED)]
        /\ UNCHANGED <<files, fileVersions, nextTenant, nextFile>>

\* The handler of POST /tenants/:tenantId/join: auto-joins as USER.
JoinTenant(u, tenantId) ==
    /\ reqs[u].pc = "idle"
    /\ tenantId \in TenantIds
    /\ ~\E m \in members : m.userId = u /\ m.tenantId = tenantId
    /\ members' = members \cup {MemberRow(u, tenantId, "USER")}
    /\ UNCHANGED <<tenants, folders, files, fileVersions, reqs,
                   nextTenant, nextFolder, nextFile>>

-----------------------------------------------------------------------------
(* POST /tenants/:tenantId/folders  (createSubfolder) *)

\* requireTenantAccess() on the tenant of the URL, then the body is read:
\* tenantId, name and parentId all come from the body.
CreateBegin(u, urlTenantId, bodyTenantId, parentId, rawName) ==
    LET access == requireTenantAccess(u, urlTenantId, "undefined")
        r == Start(u, "create", "lookupParent", bodyTenantId, parentId, trim(rawName))
    IN  /\ reqs[u].pc = "idle"
        /\ (nextFolder - nextTenant) + CreatesInFlight < MaxFolders
        /\ reqs' = [reqs EXCEPT ![u] =
              IF access # "next"
              THEN Finish([r EXCEPT !.tenantId = urlTenantId], access)
              ELSE IF nameInvalid(rawName) THEN Finish(r, BAD_REQUEST)
              ELSE IF parentId = NULL THEN Finish(r, BAD_REQUEST)
              ELSE r]
        /\ UNCHANGED <<dbVars, nextTenant, nextFolder, nextFile>>

\* the parent looked up by id alone
CreateLookupParentAnyTenant(u) ==
    LET r == reqs[u]
        parentFolder == {f \in folders : f.id = r.folderId}
    IN  /\ r.op = "create" /\ r.pc = "lookupParent"
        /\ reqs' = [reqs EXCEPT ![u] =
              IF parentFolder = {} THEN Finish(r, NOT_FOUND)
              ELSE [r EXCEPT !.pc = "checkDuplicate",
                             !.path = LtreeToText((CHOOSE f \in parentFolder : TRUE).path)]]
        /\ UNCHANGED <<dbVars, nextTenant, nextFolder, nextFile>>

\* SELECT id, "tenantId", path::text FROM "Folder" WHERE id = parentId AND "tenantId" = tenantId
CreateLookupParent(u) ==
    LET r == reqs[u]
        parentFolder == {f \in folders : f.id = r.folderId /\ f.tenantId = r.tenantId}
    IN  /\ r.op = "create" /\ r.pc = "lookupParent"
        /\ reqs' = [reqs EXCEPT ![u] =
              IF parentFolder = {} THEN Finish(r, NOT_FOUND)
              ELSE [r EXCEPT !.pc = "checkDuplicate",
                             !.path = LtreeToText((CHOOSE f \in parentFolder : TRUE).path)]]
        /\ UNCHANGED <<dbVars, nextTenant, nextFolder, nextFile>>

\* folder.findFirst({ name: trimmedName, parentId, tenantId })
CreateCheckDuplicate(u) ==
    LET r == reqs[u]
        existingFolder == {f \in folders : /\ f.name = r.name
                                           /\ f.parentId = r.folderId
                                           /\ f.tenantId = r.tenantId}
    IN  /\ r.op = "create" /\ r.pc = "checkDuplicate"
        /\ reqs' = [reqs EXCEPT ![u] =
              IF existingFolder # {} THEN Finish(r, CONFLICT)
              ELSE [r EXCEPT !.pc = "insert"]]
        /\ UNCHANGED <<dbVars, nextTenant, nextFolder, nextFile>>

\* the path of the parent, without a label for the new folder
newPathOfParent(parentPath, safeFolderId) == parentPath

\* the path built without the separator
newPathNoSeparator(parentPath, safeFolderId) == parentPath \o safeFolderId

\* `${parent.path}.${safeFolderId}`
newPath(parentPath, safeFolderId) == parentPath \o <<".">> \o safeFolderId

\* the row of the INSERT
NewFolderRow(newFolderId, trimmedName, parentId, tenantId, parentPath) ==
    [id |-> newFolderId, name |-> trimmedName, parentId |-> parentId,
     tenantId |-> tenantId,
     path |-> TextToLtree(newPath(parentPath, replaceHyphens(newFolderId)))]

\* the insert with an id generator that hands out the id of a deleted folder
CreateInsertReusingIds(u) ==
    LET r == reqs[u]
        free == {k \in 1..nextFolder : FolderUuid(k) \notin FolderIds}
        newFolderId == IF free = {} THEN FolderUuid(nextFolder + 1)
                       ELSE FolderUuid(CHOOSE k \in free : TRUE)
        row == NewFolderRow(newFolderId, r.name, r.folderId, r.tenantId, r.path)
    IN  /\ r.op = "create" /\ r.pc = "insert"
        /\ IF FolderInsertAllowed(row)
           THEN /\ folders' = folders \cup {row}
                /\ nextFolder' = IF free = {} THEN nextFolder + 1 ELSE nextFolder
                /\ reqs' = [reqs EXCEPT ![u] = Finish(r, CREATED)]
           ELSE /\ UNCHANGED <<folders, nextFolder>>
                /\ reqs' = [reqs EXCEPT ![u] = Finish(r, SERVER_ERROR)]
        /\ UNCHANGED <<tenants, members, files, fileVersions, nextTenant, nextFile>>

\* INSERT INTO "Folder"; a constraint violation throws into the catch block (500)
CreateInsert(u) ==
    LET r == reqs[u]
        newFolderId == FolderUuid(nextFolder + 1)
        row == NewFolderRow(newFolderId, r.name, r.folderId, r.tenantId, r.path)
    IN  /\ r.op = "create" /\ r.pc = "insert"
        /\ IF FolderInsertAllowed(row)
           THEN /\ folders' = folders \cup {row}
                /\ nextFolder' = nextFolder + 1
                /\ reqs' = [reqs EXCEPT ![u] = Finish(r, CREATED)]
           ELSE /\ UNCHANGED <<folders, nextFolder>>
                /\ reqs' = [reqs EXCEPT ![u] = Finish(r, SERVER_ERROR)]
        /\ UNCHANGED <<tenants, members, files, fileVersions, nextTenant, nextFile>>

-----------------------------------------------------------------------------
(* PATCH /tenants/:tenantId/folders/:folderId  (renameFolder) *)

RenameBegin(u, tenantId, folderId, rawName) ==
    LET access == requireTenantAccess(u, tenantId, "undefined")
        r == Start(u, "rename", "find", tenantId, folderId, trim(rawName))
    IN  /\ reqs[u].pc = "idle"
        /\ reqs' = [reqs EXCEPT ![u] =
              IF access # "next" THEN Finish(r, access)
              ELSE IF nameInvalid(rawName) THEN Finish(r, BAD_REQUEST)
              ELSE r]
        /\ UNCHANGED <<dbVars, nextTenant, nextFolder, nextFile>>

\* folder.findFirst({ id: folderId, tenantId })
RenameFind(u) ==
    LET r == reqs[u]
        folder == {f \in folders : f.id = r.folderId /\ f.tenantId = r.tenantId}
        parentId == (CHOOSE f \in folder : TRUE).parentId
    IN  /\ r.op = "rename" /\ r.pc = "find"
        /\ reqs' = [reqs EXCEPT ![u] =
              IF folder = {} THEN Finish(r, NOT_FOUND)
              ELSE IF parentId # NULL
                   THEN [r EXCEPT !.pc = "checkDuplicate", !.parentId = parentId]
              ELSE [r EXCEPT !.pc = "update"]]
        /\ UNCHANGED <<dbVars, nextTenant, nextFolder, nextFile>>

\* folder.findFirst({ name: trimmedName, parentId: folder.parentId, tenantId, id: { not: folderId } })
RenameCheckDuplicate(u) ==
    LET r == reqs[u]
        duplicate == {f \in folders : /\ f.name = r.name
                                      /\ f.parentId = r.parentId
                                      /\ f.tenantId = r.tenantId
                                      /\ f.id # r.folderId}
    IN  /\ r.op = "rename" /\ r.pc = "checkDuplicate"
        /\ reqs' = [reqs EXCEPT ![u] =
              IF duplicate # {} THEN Finish(r, CONFLICT)
              ELSE [r EXCEPT !.pc = "update"]]
        /\ UNCHANGED <<dbVars, nextTenant, nextFolder, nextFile>>

\* a rename that also rewrites the last label of the path from the name
RenamedRowWithPath(f, trimmedName) ==
    [f EXCEPT !.name = trimmedName, !.path[Len(f.path)] = trimmedName]

\* data: { name: trimmedName }
RenamedRow(f, trimmedName) == [f EXCEPT !.name = trimmedName]

\* folder.update({ where: { id: folderId }, data: { name: trimmedName } }); a
\* missing row or a constraint violation throws into the catch block (500)
RenameUpdate(u) ==
    LET r == reqs[u]
    IN  /\ r.op = "rename" /\ r.pc = "update"
        /\ IF /\ r.folderId \in FolderIds
              /\ FolderRenameAllowed(FolderById(r.folderId), r.name)
           THEN /\ folders' = (folders \ {FolderById(r.folderId)})
                                 \cup {RenamedRow(FolderById(r.folderId), r.name)}
                /\ reqs' = [reqs EXCEPT ![u] = Finish(r, OK)]
           ELSE /\ UNCHANGED folders
                /\ reqs' = [reqs EXCEPT ![u] = Finish(r, SERVER_ERROR)]
        /\ UNCHANGED <<tenants, members, files, fileVersions,
                       nextTenant, nextFolder, nextFile>>

-----------------------------------------------------------------------------
(* DELETE /tenants/:tenantId/folders/:folderId  (deleteSubtree) *)

DeleteBegin(u, tenantId, folderId) ==
    LET access == requireTenantAccess(u, tenantId, "TENANT_ADMIN")
        r == Start(u, "delete", "lookup", tenantId, folderId, <<>>)
    IN  /\ reqs[u].pc = "idle"
        /\ reqs' = [reqs EXCEPT ![u] =
              IF access # "next" THEN Finish(r, access) ELSE r]
        /\ UNCHANGED <<dbVars, nextTenant, nextFolder, nextFile>>

\* the lookup without the check for the root
DeleteLookupNoRootCheck(u) ==
    LET r == reqs[u]
        folderData == {f \in folders : f.id = r.folderId /\ f.tenantId = r.tenantId}
        row == CHOOSE f \in folderData : TRUE
    IN  /\ r.op = "delete" /\ r.pc = "lookup"
        /\ reqs' = [reqs EXCEPT ![u] =
              IF folderData = {} THEN Finish(r, NOT_FOUND)
              ELSE [r EXCEPT !.pc = "deleteFiles", !.path = LtreeToText(row.path)]]
        /\ UNCHANGED <<dbVars, nextTenant, nextFolder, nextFile>>

\* SELECT path::text, "parentId" FROM "Folder" WHERE id = folderId AND "tenantId" = tenantId
DeleteLookup(u) ==
    LET r == reqs[u]
        folderData == {f \in folders : f.id = r.folderId /\ f.tenantId = r.tenantId}
        row == CHOOSE f \in folderData : TRUE
    IN  /\ r.op = "delete" /\ r.pc = "lookup"
        /\ reqs' = [reqs EXCEPT ![u] =
              IF folderData = {} THEN Finish(r, NOT_FOUND)
              ELSE IF row.parentId = NULL THEN Finish(r, CANNOT_DELETE_ROOT)
              ELSE [r EXCEPT !.pc = "deleteFiles", !.path = LtreeToText(row.path)]]
        /\ UNCHANGED <<dbVars, nextTenant, nextFolder, nextFile>>

\* the subtree taken as every folder of the tenant (no predicate on path)
SubtreeRowsWholeTenant(path, tenantId) ==
    {f \in folders : f.tenantId = tenantId}

\* the subtree taken as the folder alone (path = instead of path <@)
SubtreeRowsSelfOnly(path, tenantId) ==
    {f \in folders : f.path = TextToLtree(path) /\ f.tenantId = tenantId}

\* SELECT id FROM "Folder" WHERE path <@ ${path}::ltree AND "tenantId" = tenantId
SubtreeRows(path, tenantId) ==
    {f \in folders : /\ IsDescendantOrEqual(f.path, TextToLtree(path))
                     /\ f.tenantId = tenantId}

\* FileVersion_fileId_fkey ON DELETE RESTRICT
FileDeleteAllowed(rows) ==
    ~\E v \in fileVersions : \E d \in rows : v.fileId = d.id

\* First statement of the transaction: DELETE FROM "File" WHERE "folderId" IN
\* (the subtree).  The deleted rows stay invisible to others until the commit;
\* an error rolls the transaction back and reaches the catch block (500).
DeleteFiles(u) ==
    LET r == reqs[u]
        ids == {f.id : f \in SubtreeRows(r.path, r.tenantId)}
        rows == {d \in files : d.folderId \in ids}
    IN  /\ r.op = "delete" /\ r.pc = "deleteFiles"
        /\ reqs' = [reqs EXCEPT ![u] =
              IF FileDeleteAllowed(rows)
              THEN [r EXCEPT !.pc = "deleteFolders", !.txFiles = rows]
              ELSE Finish(r, SERVER_ERROR)]
        /\ UNCHANGED <<dbVars, nextTenant, nextFolder, nextFile>>

\* the schema without File_folderId_fkey
FolderDeleteAllowedNoFileKey(rows, txFiles) == TRUE

\* File_folderId_fkey ON DELETE RESTRICT, seen from inside the transaction
FolderDeleteAllowed(rows, txFiles) ==
    ~\E d \in files \ txFiles : \E f \in rows : d.folderId = f.id

\* Folder_parentId_fkey ON DELETE SET NULL
SetNullParents(remaining, deletedIds) ==
    {[f EXCEPT !.parentId = IF f.parentId \in deletedIds THEN NULL ELSE f.parentId] :
        f \in remaining}

\* Tenant_rootFolderId_fkey ON DELETE SET NULL
SetNullRoots(deletedIds) ==
    {[t EXCEPT !.rootFolderId = IF t.rootFolderId \in deletedIds THEN NULL
                                ELSE t.rootFolderId] : t \in tenants}

\* the folders deleted one by one outside a transaction: those no File row
\* points at are gone when the first RESTRICT violation is raised
DeleteFoldersRowByRow(u) ==
    LET r == reqs[u]
        rows == SubtreeRows(r.path, r.tenantId)
        blocked == {f \in rows : \E d \in files \ r.txFiles : d.folderId = f.id}
        ids == {f.id : f \in rows \ blocked}
    IN  /\ r.op = "delete" /\ r.pc = "deleteFolders"
        /\ folders' = SetNullParents(folders \ (rows \ blocked), ids)
        /\ tenants' = SetNullRoots(ids)
        /\ files' = files \ r.txFiles
        /\ reqs' = [reqs EXCEPT ![u] =
              IF blocked = {} THEN [Finish(r, OK) EXCEPT !.count = Cardinality(rows)]
              ELSE Finish(r, SERVER_ERROR)]
        /\ UNCHANGED <<members, fileVersions, nextTenant, nextFolder, nextFile>>

\* Second statement, DELETE FROM "Folder" WHERE path <@ ${path}::ltree AND
\* "tenantId" = tenantId RETURNING id, and the commit of the transaction.
DeleteFolders(u) ==
    LET r == reqs[u]
        rows == SubtreeRows(r.path, r.tenantId)
        ids == {f.id : f \in rows}
    IN  /\ r.op = "delete" /\ r.pc = "deleteFolders"
        /\ IF FolderDeleteAllowed(rows, r.txFiles)
           THEN /\ folders' = SetNullParents(folders \ rows, ids)
                /\ tenants' = SetNullRoots(ids)
                /\ files' = files \ r.txFiles
                /\ reqs' = [reqs EXCEPT ![u] =
                      [Finish(r, OK) EXCEPT !.count = Cardinality(rows)]]
           ELSE /\ UNCHANGED <<folders, tenants, files>>
                /\ reqs' = [reqs EXCEPT ![u] = Finish(r, SERVER_ERROR)]
        /\ UNCHANGED <<members, fileVersions, nextTenant, nextFolder, nextFile>>

-----------------------------------------------------------------------------
(* POST /tenants/:tenantId/folders/:folderId/files  (upload) *)

UploadsInFlight ==
    Cardinality({u \in Users : reqs[u].op = "upload" /\ reqs[u].pc # "done"})

\* authenticate only; the route has no requireTenantAccess
UploadBegin(u, tenantId, folderId, fileName) ==
    /\ reqs[u].pc = "idle"
    /\ nextFile + UploadsInFlight < MaxFiles
    /\ reqs' = [reqs EXCEPT ![u] =
          Start(u, "upload", "checkFolderExists", tenantId, folderId, fileName)]
    /\ UNCHANGED <<dbVars, nextTenant, nextFolder, nextFile>>

\* folder.findFirst({ id: folderId, tenantId })
checkFolderExists(folderId, tenantId) ==
    \E f \in folders : f.id = folderId /\ f.tenantId = tenantId

\* the folder by id alone, then a member row of the user in the folder's tenant
checkUserPermissions(userId, folderId) ==
    \E f \in folders :
        /\ f.id = folderId
        /\ \E m \in members : m.tenantId = f.tenantId /\ m.userId = userId

UploadCheckFolder(u) ==
    LET r == reqs[u]
    IN  /\ r.op = "upload" /\ r.pc = "checkFolderExists"
        /\ reqs' = [reqs EXCEPT ![u] =
              IF checkFolderExists(r.folderId, r.tenantId)
              THEN [r EXCEPT !.pc = "checkUserPermissions"]
              ELSE Finish(r, NOT_FOUND)]
        /\ UNCHANGED <<dbVars, nextTenant, nextFolder, nextFile>>

UploadCheckPermissions(u) ==
    LET r == reqs[u]
    IN  /\ r.op = "upload" /\ r.pc = "checkUserPermissions"
        /\ reqs' = [reqs EXCEPT ![u] =
              IF checkUserPermissions(u, r.folderId)
              THEN [r EXCEPT !.pc = "create"]
              ELSE Finish(r, "403 PERMISSION_DENIED")]
        /\ UNCHANGED <<dbVars, nextTenant, nextFolder, nextFile>>

\* File_folderId_fkey, File_tenantId_fkey, File_folderId_name_key
FileInsertAllowed(row) ==
    /\ row.folderId \in FolderIds
    /\ row.tenantId \in TenantIds
    /\ ~\E d \in files : d.folderId = row.folderId /\ d.name = row.name

\* PrismaFileRepository.create: one transaction inserts the File row and its
\* first FileVersion row; a failure surfaces as METADATA_SAVE_FAILED (500)
UploadCreate(u) ==
    LET r == reqs[u]
        row == [id |-> FileUuid(nextFile + 1), name |-> r.name,
                folderId |-> r.folderId, tenantId |-> r.tenantId]
        version == [id |-> VersionUuid(nextFile + 1), fileId |-> row.id]
    IN  /\ r.op = "upload" /\ r.pc = "create"
        /\ IF FileInsertAllowed(row)
           THEN /\ files' = files \cup {row}
                /\ fileVersions' = fileVersions \cup {version}
                /\ nextFile' = nextFile + 1
                /\ reqs' = [reqs EXCEPT ![u] = Finish(r, CREATED)]
           ELSE /\ UNCHANGED <<files, fileVersions, nextFile>>
                /\ reqs' = [reqs EXCEPT ![u] = Finish(r, SERVER_ERROR)]
        /\ UNCHANGED <<tenants, members, folders, nextTenant, nextFolder>>

-----------------------------------------------------------------------------
(* DELETE /tenants/:tenantId *)

TenantDeleteBegin(u, tenantId) ==
    LET access == requireTenantAccess(u, tenantId, "TENANT_ADMIN")
        r == Start(u, "deleteTenant", "findUnique", tenantId, NULL, <<>>)
    IN  /\ reqs[u].pc = "idle"
        /\ reqs' = [reqs EXCEPT ![u] =
              IF access # "next" THEN Finish(r, access) ELSE r]
        /\ UNCHANGED <<dbVars, nextTenant, nextFolder, nextFile>>

\* tenant.findUnique({ where: { id: tenantId } })
TenantDeleteFindUnique(u) ==
    LET r == reqs[u]
    IN  /\ r.op = "deleteTenant" /\ r.pc = "findUnique"
        /\ reqs' = [reqs EXCEPT ![u] =
              IF r.tenantId \notin TenantIds THEN Finish(r, NOT_FOUND)
              ELSE [r EXCEPT !.pc = "deleteManyFiles"]]
        /\ UNCHANGED <<dbVars, nextTenant, nextFolder, nextFile>>

\* First statement of the transaction: tx.file.deleteMany({ where: { tenantId } }).
\* FileVersion_fileId_fkey is ON DELETE RESTRICT; an error rolls the
\* transaction back and reaches the catch block (500).
TenantDeleteFiles(u) ==
    LET r == reqs[u]
        rows == {d \in files : d.tenantId = r.tenantId}
    IN  /\ r.op = "deleteTenant" /\ r.pc = "deleteManyFiles"
        /\ reqs' = [reqs EXCEPT ![u] =
              IF FileDeleteAllowed(rows)
              THEN [r EXCEPT !.pc = "deleteManyFolders", !.txFiles = rows]
              ELSE Finish(r, SERVER_ERROR)]
        /\ UNCHANGED <<dbVars, nextTenant, nextFolder, nextFile>>

\* File_tenantId_fkey ON DELETE RESTRICT, seen from inside the transaction
TenantDeleteAllowed(tenantId, txFiles) ==
    ~\E d \in files \ txFiles : d.tenantId = tenantId

\* The rest of the transaction and its commit: folder.deleteMany,
\* tenantMember.deleteMany and tenant.delete for the tenant.
TenantDeleteCommit(u) ==
    LET r == reqs[u]
        rows == {f \in folders : f.tenantId = r.tenantId}
        ids == {f.id : f \in rows}
    IN  /\ r.op = "deleteTenant" /\ r.pc = "deleteManyFolders"
        /\ IF /\ FolderDeleteAllowed(rows, r.txFiles)
              /\ TenantDeleteAllowed(r.tenantId, r.txFiles)
              /\ r.tenantId \in TenantIds
           THEN /\ files' = files \ r.txFiles
                /\ folders' = SetNullParents(folders \ rows, ids)
                /\ members' = {m \in members : m.tenantId # r.tenantId}
                /\ tenants' = {t \in SetNullRoots(ids) : t.id # r.tenantId}
                /\ reqs' = [reqs EXCEPT ![u] = Finish(r, OK)]
           ELSE /\ UNCHANGED <<files, folders, members, tenants>>
                /\ reqs' = [reqs EXCEPT ![u] = Finish(r, SERVER_ERROR)]
        /\ UNCHANGED <<fileVersions, nextTenant, nextFolder, nextFile>>

-----------------------------------------------------------------------------
(* DELETE /tenants/:tenantId/leave, PATCH and DELETE /tenants/:tenantId/members/:userId *)

\* tenantMember.count({ where: { tenantId, role: TENANT_ADMIN } })
adminCount(tenantId) ==
    Cardinality({m \in members : m.tenantId = tenantId /\ m.role = "TENANT_ADMIN"})

\* tenantMember.findUnique({ where: { userId_tenantId } }), as a set
membershipOf(userId, tenantId) ==
    {m \in members : m.userId = userId /\ m.tenantId = tenantId}

\* Object.values(UserRole)
UserRoles == {"USER", "TENANT_ADMIN", "SUPER_ADMIN"}

\* a request on a membership: the handler's tenantId, userId and body role
StartMember(u, op, pc, tenantId, userId, role) ==
    [Idle EXCEPT !.op = op, !.pc = pc, !.tenantId = tenantId,
                 !.userId = userId, !.role = role]

LeaveBegin(u, tenantId) ==
    LET access == requireTenantAccess(u, tenantId, "undefined")
        r == StartMember(u, "leave", "findMembership", tenantId, u, "none")
    IN  /\ reqs[u].pc = "idle"
        /\ reqs' = [reqs EXCEPT ![u] =
              IF access # "next" THEN Finish(r, access) ELSE r]
        /\ UNCHANGED <<dbVars, nextTenant, nextFolder, nextFile>>

LeaveFindMembership(u) ==
    LET r == reqs[u]
        membership == membershipOf(r.userId, r.tenantId)
    IN  /\ r.op = "leave" /\ r.pc = "findMembership"
        /\ reqs' = [reqs EXCEPT ![u] =
              IF membership = {} THEN Finish(r, NOT_FOUND)
              ELSE IF (CHOOSE m \in membership : TRUE).role = "TENANT_ADMIN"
                   THEN [r EXCEPT !.pc = "countAdmins"]
              ELSE [r EXCEPT !.pc = "deleteMember"]]
        /\ UNCHANGED <<dbVars, nextTenant, nextFolder, nextFile>>

LeaveCountAdmins(u) ==
    LET r == reqs[u]
    IN  /\ r.op = "leave" /\ r.pc = "countAdmins"
        /\ reqs' = [reqs EXCEPT ![u] =
              IF adminCount(r.tenantId) = 1 THEN Finish(r, BAD_REQUEST)
              ELSE [r EXCEPT !.pc = "deleteMember"]]
        /\ UNCHANGED <<dbVars, nextTenant, nextFolder, nextFile>>

\* tenantMember.delete({ where: { userId_tenantId } }); a missing row throws
\* into the catch block (500)
LeaveDelete(u) ==
    LET r == reqs[u]
        membership == membershipOf(r.userId, r.tenantId)
    IN  /\ r.op = "leave" /\ r.pc = "deleteMember"
        /\ members' = members \ membership
        /\ reqs' = [reqs EXCEPT ![u] =
              IF membership = {} THEN Finish(r, SERVER_ERROR) ELSE Finish(r, OK)]
        /\ UNCHANGED <<tenants, folders, files, fileVersions,
                       nextTenant, nextFolder, nextFile>>

UpdateMemberBegin(u, tenantId, userId, role) ==
    LET access == requireTenantAccess(u, tenantId, "TENANT_ADMIN")
        r == StartMember(u, "updateMember", "findMembership", tenantId, userId, role)
    IN  /\ reqs[u].pc = "idle"
        /\ reqs' = [reqs EXCEPT ![u] =
              IF access # "next" THEN Finish(r, access)
              ELSE IF role \notin UserRoles THEN Finish(r, BAD_REQUEST)
              ELSE r]
        /\ UNCHANGED <<dbVars, nextTenant, nextFolder, nextFile>>

UpdateMemberFindMembership(u) ==
    LET r == reqs[u]
        membership == membershipOf(r.userId, r.tenantId)
    IN  /\ r.op = "updateMember" /\ r.pc = "findMembership"
        /\ reqs' = [reqs EXCEPT ![u] =
              IF membership = {} THEN Finish(r, NOT_FOUND)
              ELSE IF /\ (CHOOSE m \in membership : TRUE).role = "TENANT_ADMIN"
                      /\ r.role # "TENANT_ADMIN"
                   THEN [r EXCEPT !.pc = "countAdmins"]
              ELSE [r EXCEPT !.pc = "updateMember"]]
        /\ UNCHANGED <<dbVars, nextTenant, nextFolder, nextFile>>

UpdateMemberCountAdmins(u) ==
    LET r == reqs[u]
    IN  /\ r.op = "updateMember" /\ r.pc = "countAdmins"
        /\ reqs' = [reqs EXCEPT ![u] =
              IF adminCount(r.tenantId) = 1 THEN Finish(r, BAD_REQUEST)
              ELSE [r EXCEPT !.pc = "updateMember"]]
        /\ UNCHANGED <<dbVars, nextTenant, nextFolder, nextFile>>

\* tenantMember.update({ where: { userId_tenantId }, data: { role } }); a
\* missing row throws into the catch block (500)
UpdateMemberUpdate(u) ==
    LET r == reqs[u]
        membership == membershipOf(r.userId, r.tenantId)
    IN  /\ r.op = "updateMember" /\ r.pc = "updateMember"
        /\ members' = (members \ membership)
                         \cup {[m EXCEPT !.role = r.role] : m \in membership}
        /\ reqs' = [reqs EXCEPT ![u] =
              IF membership = {} THEN Finish(r, SERVER_ERROR) ELSE Finish(r, OK)]
        /\ UNCHANGED <<tenants, folders, files, fileVersions,
                       nextTenant, nextFolder, nextFile>>

RemoveMemberBegin(u, tenantId, userId) ==
    LET access == requireTenantAccess(u, tenantId, "TENANT_ADMIN")
        r == StartMember(u, "removeMember", "findMembership", tenantId, userId, "none")
    IN  /\ reqs[u].pc = "idle"
        /\ reqs' = [reqs EXCEPT ![u] =
              IF access # "next" THEN Finish(r, access) ELSE r]
        /\ UNCHANGED <<dbVars, nextTenant, nextFolder, nextFile>>

RemoveMemberFindMembership(u) ==
    LET r == reqs[u]
        membership == membershipOf(r.userId, r.tenantId)
    IN  /\ r.op = "removeMember" /\ r.pc = "findMembership"
        /\ reqs' = [reqs EXCEPT ![u] =
              IF membership = {} THEN Finish(r, NOT_FOUND)
              ELSE IF (CHOOSE m \in membership : TRUE).role = "TENANT_ADMIN"
                   THEN [r EXCEPT !.pc = "countAdmins"]
              ELSE [r EXCEPT !.pc = "deleteMember"]]
        /\ UNCHANGED <<dbVars, nextTenant, nextFolder, nextFile>>

RemoveMemberCountAdmins(u) ==
    LET r == reqs[u]
    IN  /\ r.op = "removeMember" /\ r.pc = "countAdmins"
        /\ reqs' = [reqs EXCEPT ![u] =
              IF adminCount(r.tenantId) = 1 THEN Finish(r, BAD_REQUEST)
              ELSE [r EXCEPT !.pc = "deleteMember"]]
        /\ UNCHANGED <<dbVars, nextTenant, nextFolder, nextFile>>

RemoveMemberDelete(u) ==
    LET r == reqs[u]
        membership == membershipOf(r.userId, r.tenantId)
    IN  /\ r.op = "removeMember" /\ r.pc = "deleteMember"
        /\ members' = members \ membership
        /\ reqs' = [reqs EXCEPT ![u] =
              IF membership = {} THEN Finish(r, SERVER_ERROR) ELSE Finish(r, OK)]
        /\ UNCHANGED <<tenants, folders, files, fileVersions,
                       nextTenant, nextFolder, nextFile>>

-----------------------------------------------------------------------------
(* Specifications *)

\* folder ids a client can name: those handed out so far
KnownFolderIds == {FolderUuid(k) : k \in 1..nextFolder}

OthersIdle(u) == \A v \in Users \ {u} : reqs[v].pc = "idle"

\* Requests arriving one at a time: a request is sent when no other is in flight.
SendCreateTenant(u, n) == OthersIdle(u) /\ CreateTenant(u, n)
SendCreate(u, t, b, p, n) == OthersIdle(u) /\ CreateBegin(u, t, b, p, n)
SendRename(u, t, f, n) == OthersIdle(u) /\ RenameBegin(u, t, f, n)
SendDelete(u, t, f) == OthersIdle(u) /\ DeleteBegin(u, t, f)

Begin(u) ==
    \/ \E n \in TenantNames : SendCreateTenant(u, n)
    \/ \E t \in TenantIds, b \in TenantIds, p \in KnownFolderIds, n \in RawNames :
          SendCreate(u, t, b, p, n)
    \/ \E t \in TenantIds, f \in KnownFolderIds, n \in RawNames : SendRename(u, t, f, n)
    \/ \E t \in TenantIds, f \in KnownFolderIds : SendDelete(u, t, f)

Step(u) ==
    \/ CreateLookupParent(u)
    \/ CreateCheckDuplicate(u)
    \/ CreateInsert(u)
    \/ RenameFind(u)
    \/ RenameCheckDuplicate(u)
    \/ RenameUpdate(u)
    \/ DeleteLookup(u)
    \/ DeleteFiles(u)
    \/ DeleteFolders(u)
    \/ Respond(u)

\* The server once u1 has created tenant "x" and u2 has joined it.
Init ==
    /\ tenants = {TenantRow(TenantUuid(1), <<"x">>, FolderUuid(1))}
    /\ members = {MemberRow("u1", TenantUuid(1), "TENANT_ADMIN"),
                  MemberRow("u2", TenantUuid(1), "USER")}
    /\ folders = {RootFolderRow(FolderUuid(1), TenantUuid(1), replaceHyphens(TenantUuid(1)))}
    /\ files = {}
    /\ fileVersions = {}
    /\ reqs = [u \in Users |-> Idle]
    /\ nextTenant = 1
    /\ nextFolder = 1
    /\ nextFile = 0

\* tenant creation and the three folder mutations, one request at a time
Next == \E u \in Users : Begin(u) \/ Step(u)

Spec == Init /\ [][Next]_vars

\* Concurrent requests of the two members on the folders of the tenant.
InitConc == Init

BeginConc(u) ==
    \/ \E t \in TenantIds, p \in KnownFolderIds, n \in RawNames : CreateBegin(u, t, t, p, n)
    \/ \E t \in TenantIds, f \in KnownFolderIds, n \in RawNames : RenameBegin(u, t, f, n)

StepConc(u) ==
    \/ CreateLookupParent(u)
    \/ CreateCheckDuplicate(u)
    \/ CreateInsert(u)
    \/ RenameFind(u)
    \/ RenameCheckDuplicate(u)
    \/ RenameUpdate(u)
    \/ Respond(u)

\* concurrent createSubfolder and renameFolder requests
NextConc == \E u \in Users : BeginConc(u) \/ StepConc(u)

SpecConc == InitConc /\ [][NextConc]_vars


\* Concurrent deleteSubtree and upload requests on two tenants: "x" of Init
\* with the tree root -> "a" -> "b", and "y" created by u2 with its root alone.
InitDel ==
    LET rootX == RootFolderRow(FolderUuid(1), TenantUuid(1), replaceHyphens(TenantUuid(1)))
        rootY == RootFolderRow(FolderUuid(2), TenantUuid(2), replaceHyphens(TenantUuid(2)))
        a == NewFolderRow(FolderUuid(3), <<"a">>, rootX.id, TenantUuid(1),
                          LtreeToText(rootX.path))
        b == NewFolderRow(FolderUuid(4), <<"b">>, a.id, TenantUuid(1), LtreeToText(a.path))
    IN  /\ tenants = {TenantRow(TenantUuid(1), <<"x">>, FolderUuid(1)),
                      TenantRow(TenantUuid(2), <<"y">>, FolderUuid(2))}
        /\ members = {MemberRow("u1", TenantUuid(1), "TENANT_ADMIN"),
                      MemberRow("u2", TenantUuid(1), "USER"),
                      MemberRow("u2", TenantUuid(2), "TENANT_ADMIN")}
        /\ folders = {rootX, rootY, a, b}
        /\ files = {}
        /\ fileVersions = {}
        /\ reqs = [u \in Users |-> Idle]
        /\ nextTenant = 2
        /\ nextFolder = 4
        /\ nextFile = 0

BeginDel(u) ==
    \/ \E t \in TenantIds, f \in KnownFolderIds : DeleteBegin(u, t, f)
    \/ \E t \in TenantIds, f \in KnownFolderIds, n \in FileNames : UploadBegin(u, t, f, n)

StepDel(u) ==
    \/ DeleteLookup(u)
    \/ DeleteFiles(u)
    \/ DeleteFolders(u)
    \/ UploadCheckFolder(u)
    \/ UploadCheckPermissions(u)
    \/ UploadCreate(u)
    \/ Respond(u)

NextDel == \E u \in Users : BeginDel(u) \/ StepDel(u)

SpecDel == InitDel /\ [][NextDel]_vars

\* The same tenants and tree once u1 has promoted u2 to TENANT_ADMIN of "x"
\* (PATCH /tenants/:tenantId/members/:userId).
InitAdmins ==
    LET rootX == RootFolderRow(FolderUuid(1), TenantUuid(1), replaceHyphens(TenantUuid(1)))
        rootY == RootFolderRow(FolderUuid(2), TenantUuid(2), replaceHyphens(TenantUuid(2)))
        a == NewFolderRow(FolderUuid(3), <<"a">>, rootX.id, TenantUuid(1),
                          LtreeToText(rootX.path))
        b == NewFolderRow(FolderUuid(4), <<"b">>, a.id, TenantUuid(1), LtreeToText(a.path))
    IN  /\ tenants = {TenantRow(TenantUuid(1), <<"x">>, FolderUuid(1)),
                      TenantRow(TenantUuid(2), <<"y">>, FolderUuid(2))}
        /\ members = {MemberRow("u1", TenantUuid(1), "TENANT_ADMIN"),
                      MemberRow("u2", TenantUuid(1), "TENANT_ADMIN"),
                      MemberRow("u2", TenantUuid(2), "TENANT_ADMIN")}
        /\ folders = {rootX, rootY, a, b}
        /\ files = {}
        /\ fileVersions = {}
        /\ reqs = [u \in Users |-> Idle]
        /\ nextTenant = 2
        /\ nextFolder = 4
        /\ nextFile = 0

\* concurrent deleteSubtree and upload requests of two admins of one tenant
SpecAdmins == InitAdmins /\ [][NextDel]_vars

\* The same requests on the same tree, one at a time.
SendUpload(u, t, f, n) == OthersIdle(u) /\ UploadBegin(u, t, f, n)

BeginSeq(u) ==
    \/ \E t \in TenantIds, f \in KnownFolderIds : SendDelete(u, t, f)
    \/ \E t \in TenantIds, f \in KnownFolderIds, n \in FileNames : SendUpload(u, t, f, n)

NextSeq == \E u \in Users : BeginSeq(u) \/ StepDel(u)

SpecSeq == InitDel /\ [][NextSeq]_vars

\* Uploads and tenant deletions on the same tenants and tree, one at a time.
SendTenantDelete(u, t) == OthersIdle(u) /\ TenantDeleteBegin(u, t)

BeginTenantDelete(u) ==
    \/ \E t \in TenantIds, f \in KnownFolderIds, n \in FileNames : SendUpload(u, t, f, n)
    \/ \E t \in TenantIds : SendTenantDelete(u, t)

StepTenantDelete(u) ==
    \/ UploadCheckFolder(u)
    \/ UploadCheckPermissions(u)
    \/ UploadCreate(u)
    \/ TenantDeleteFindUnique(u)
    \/ TenantDeleteFiles(u)
    \/ TenantDeleteCommit(u)
    \/ Respond(u)

NextTenantDelete == \E u \in Users : BeginTenantDelete(u) \/ StepTenantDelete(u)

SpecTenantDelete == InitDel /\ [][NextTenantDelete]_vars

\* Concurrent membership requests of the two users on the same tenants:
\* leave, join, role update and removal.
BodyRoles == {"USER", "TENANT_ADMIN", "OWNER"}

BeginMembers(u) ==
    \/ \E t \in TenantIds : LeaveBegin(u, t)
    \/ \E t \in TenantIds : JoinTenant(u, t)
    \/ \E t \in TenantIds, v \in Users, role \in BodyRoles : UpdateMemberBegin(u, t, v, role)
    \/ \E t \in TenantIds, v \in Users : RemoveMemberBegin(u, t, v)

StepMembers(u) ==
    \/ LeaveFindMembership(u)
    \/ LeaveCountAdmins(u)
    \/ LeaveDelete(u)
    \/ UpdateMemberFindMembership(u)
    \/ UpdateMemberCountAdmins(u)
    \/ UpdateMemberUpdate(u)
    \/ RemoveMemberFindMembership(u)
    \/ RemoveMemberCountAdmins(u)
    \/ RemoveMemberDelete(u)
    \/ Respond(u)

NextMembers == \E u \in Users : BeginMembers(u) \/ StepMembers(u)

SpecMembers == InitAdmins /\ [][NextMembers]_vars

\* Concurrent createSubfolder, renameFolder and deleteSubtree requests of the
\* two members on the folders of the tenant.
BeginTree(u) ==
    \/ \E t \in TenantIds, p \in KnownFolderIds, n \in RawNames : CreateBegin(u, t, t, p, n)
    \/ \E t \in TenantIds, f \in KnownFolderIds, n \in RawNames : RenameBegin(u, t, f, n)
    \/ \E t \in TenantIds, f \in KnownFolderIds : DeleteBegin(u, t, f)

StepTree(u) ==
    \/ CreateLookupParent(u)
    \/ CreateCheckDuplicate(u)
    \/ CreateInsert(u)
    \/ RenameFind(u)
    \/ RenameCheckDuplicate(u)
    \/ RenameUpdate(u)
    \/ DeleteLookup(u)
    \/ DeleteFiles(u)
    \/ DeleteFolders(u)
    \/ Respond(u)

NextTree == \E u \in Users : BeginTree(u) \/ StepTree(u)

SpecTree == Init /\ [][NextTree]_vars

\* Provisioning from the empty database: tenants are created and joined.
InitEmpty ==
    /\ tenants = {}
    /\ members = {}
    /\ folders = {}
    /\ files = {}
    /\ fileVersions = {}
    /\ reqs = [u \in Users |-> Idle]
    /\ nextTenant = 0
    /\ nextFolder = 0
    /\ nextFile = 0

\* the names POST /tenants is sent with
TenantRawNames == TenantNames \cup {<<" ", "x">>, <<" ">>}

BeginProvision(u) ==
    \/ \E n \in TenantRawNames : TenantCreateBegin(u, n)
    \/ \E t \in TenantIds : JoinTenant(u, t)

StepProvision(u) ==
    \/ TenantCreateFindUnique(u)
    \/ TenantCreateInsertTenant(u)
    \/ TenantCreateCommit(u)
    \/ Respond(u)

\* concurrent POST /tenants and POST /tenants/:tenantId/join requests
NextProvision == \E u \in Users : BeginProvision(u) \/ StepProvision(u)

SpecProvision == InitEmpty /\ [][NextProvision]_vars

-----------------------------------------------------------------------------
(* Read queries of the folder routes *)

\* the pivot looked up by id alone
folderPathAnyTenant(tenantId, folderId) ==
    {LtreeToText(f.path) : f \in {g \in folders : g.id = folderId}}

\* SELECT path::text FROM "Folder" WHERE id = folderId AND "tenantId" = tenantId
folderPath(tenantId, folderId) ==
    {LtreeToText(f.path) : f \in {g \in folders : g.id = folderId /\ g.tenantId = tenantId}}

\* GET /:folderId/descendants: the rows of the result (empty on 404)
listDescendants(tenantId, folderId) ==
    {[id |-> f.id, name |-> f.name, path |-> LtreeToText(f.path),
      depth |-> nlevel(f.path) - nlevel(TextToLtree(path))] :
        <<f, path>> \in {x \in folders \X folderPath(tenantId, folderId) :
                           /\ IsDescendantOrEqual(x[1].path, TextToLtree(x[2]))
                           /\ x[1].id # folderId
                           /\ x[1].tenantId = tenantId}}

\* the ancestors query with the containment operator the wrong way round
listAncestorsDescending(tenantId, folderId) ==
    {[id |-> f.id, name |-> f.name, path |-> LtreeToText(f.path),
      depth |-> nlevel(f.path)] :
        <<f, path>> \in {x \in folders \X folderPath(tenantId, folderId) :
                           /\ IsDescendantOrEqual(x[1].path, TextToLtree(x[2]))
                           /\ x[1].tenantId = tenantId}}

\* GET /:folderId/ancestors: the rows of the result (empty on 404)
listAncestors(tenantId, folderId) ==
    {[id |-> f.id, name |-> f.name, path |-> LtreeToText(f.path),
      depth |-> nlevel(f.path)] :
        <<f, path>> \in {x \in folders \X folderPath(tenantId, folderId) :
                           /\ IsAncestorOrEqual(x[1].path, TextToLtree(x[2]))
                           /\ x[1].tenantId = tenantId}}

RECURSIVE OrderByPathDescending(_)
\* ORDER BY path DESC
OrderByPathDescending(rows) ==
    IF rows = {} THEN <<>>
    ELSE LET first == CHOOSE r \in rows :
                          \A q \in rows \ {r} : ~TextLess(r.path, q.path)
         IN  <<first>> \o OrderByPathDescending(rows \ {first})

RECURSIVE OrderByPath(_)
\* ORDER BY path ASC, where path names the output column path::text
OrderByPath(rows) ==
    IF rows = {} THEN <<>>
    ELSE LET first == CHOOSE r \in rows :
                          \A q \in rows \ {r} : ~TextLess(q.path, r.path)
         IN  <<first>> \o OrderByPath(rows \ {first})

RECURSIVE OrderByNlevelDescending(_)
\* ORDER BY nlevel(path) DESC
OrderByNlevelDescending(rows) ==
    IF rows = {} THEN <<>>
    ELSE LET first == CHOOSE r \in rows :
                          \A q \in rows \ {r} : q.depth <= r.depth
         IN  <<first>> \o OrderByNlevelDescending(rows \ {first})

RECURSIVE OrderByNlevel(_)
\* ORDER BY nlevel(path) ASC; the depth column of the row is nlevel(path)
OrderByNlevel(rows) ==
    IF rows = {} THEN <<>>
    ELSE LET first == CHOOSE r \in rows :
                          \A q \in rows \ {r} : r.depth <= q.depth
         IN  <<first>> \o OrderByNlevel(rows \ {first})

\* data of GET /:folderId/descendants, in the order of the answer
descendants(tenantId, folderId) == OrderByPath(listDescendants(tenantId, folderId))

\* data of GET /:folderId/ancestors, in the order of the answer
ancestors(tenantId, folderId) == OrderByNlevel(listAncestors(tenantId, folderId))

\* GET /:folderId/children: folder.findMany({ parentId: folderId, tenantId })
listChildren(tenantId, folderId) ==
    {[id |-> f.id, name |-> f.name] :
        f \in {g \in folders : g.parentId = folderId /\ g.tenantId = tenantId}}

\* what a read handler answers: the status and the data of the body
ReadResponse(status, data) == [status |-> status, data |-> data]

\* GET /:folderId/children as user u: middleware, folder.findFirst, findMany
getChildren(u, tenantId, folderId) ==
    LET access == requireTenantAccess(u, tenantId, "undefined")
    IN  IF access # "next" THEN ReadResponse(access, {})
        ELSE IF ~\E f \in folders : f.id = folderId /\ f.tenantId = tenantId
             THEN ReadResponse(NOT_FOUND, {})
        ELSE ReadResponse(OK, listChildren(tenantId, folderId))

\* GET /:folderId/descendants as user u
getDescendants(u, tenantId, folderId) ==
    LET access == requireTenantAccess(u, tenantId, "undefined")
    IN  IF access # "next" THEN ReadResponse(access, {})
        ELSE IF folderPath(tenantId, folderId) = {} THEN ReadResponse(NOT_FOUND, {})
        ELSE ReadResponse(OK, listDescendants(tenantId, folderId))

\* GET /:folderId/ancestors as user u
getAncestors(u, tenantId, folderId) ==
    LET access == requireTenantAccess(u, tenantId, "undefined")
    IN  IF access # "next" THEN ReadResponse(access, {})
        ELSE IF folderPath(tenantId, folderId) = {} THEN ReadResponse(NOT_FOUND, {})
        ELSE ReadResponse(OK, listAncestors(tenantId, folderId))

-----------------------------------------------------------------------------
(* Properties *)

\* the claim's own reading of the path codec, on ltree values
encodeSegment(id) == [i \in 1..Len(id) |-> IF id[i] = "-" THEN "_" ELSE id[i]]
composePath(parentPath, ownSegment) == Append(parentPath, ownSegment)

\* folder ids below id along parentId
RECURSIVE DescendantIds(_, _)
DescendantIds(ids, rows) ==
    LET more == {f.id : f \in {g \in rows : g.parentId \in ids}} \ ids
    IN  IF more = {} THEN ids ELSE DescendantIds(ids \cup more, rows)

Steps(u) == reqs'[u] # reqs[u]
Finishes(u, op) == reqs[u].pc # "done" /\ reqs'[u].pc = "done" /\ reqs'[u].op = op

\* C1 (path consistency): every folder with a parent has the path of its
\* parent followed by its own id with each hyphen replaced by an underscore.
C1_PathConsistency ==
    \A f \in folders :
        f.parentId # NULL =>
            \E parent \in folders :
                /\ parent.id = f.parentId
                /\ f.path = composePath(parent.path, encodeSegment(f.id))

\* C1 witness: a folder has just been created under a parent that is not a root
C1_Witness ==
    \E u \in Users, f \in folders :
        /\ reqs[u].pc = "done" /\ reqs[u].op = "create" /\ reqs[u].res = CREATED
        /\ f.parentId = reqs[u].folderId /\ f.name = reqs[u].name
        /\ nlevel(f.path) = 3

\* C2 (sibling uniqueness): no two folders of one tenant under the same
\* non-null parent share a name, in any interleaving of creates and renames.
C2_SiblingUniqueness ==
    \A f, g \in folders :
        (/\ f.id # g.id
         /\ f.tenantId = g.tenantId
         /\ f.parentId # NULL
         /\ f.parentId = g.parentId) => f.name # g.name

\* C2 witness: two siblings exist and a write that had passed its pre-check
\* was turned down by the storage constraint
C2_Witness ==
    /\ \E f, g \in folders : f.id # g.id /\ f.parentId # NULL /\ f.parentId = g.parentId
    /\ \E u \in Users : reqs[u].pc = "done" /\ reqs[u].res = SERVER_ERROR

\* the INSERT of a create breaks the (parentId, name, tenantId) index
CreateHitsUniqueIndex(u) ==
    /\ reqs[u].op = "create" /\ reqs[u].pc = "insert"
    /\ \E f \in folders : /\ f.parentId = reqs[u].folderId
                          /\ f.name = reqs[u].name
                          /\ f.tenantId = reqs[u].tenantId

\* C3 (race safety of create): of two concurrent creates with the same
\* (tenantId, parentId, name) the one turned down by the uniqueness constraint
\* ends with the DUPLICATE_NAME outcome (409) of the pre-check.
C3_RaceLoserGetsDuplicateName ==
    [][\A u \in Users :
          (CreateHitsUniqueIndex(u) /\ Steps(u)) => reqs'[u].res = CONFLICT]_vars

\* C4 (subtree delete postcondition): when deleteSubtree(F) succeeds, F and
\* every folder below it are gone and no File row points at any of them.
C4_DeletePostcondition ==
    [][\A u \in Users :
          (Finishes(u, "delete") /\ reqs'[u].res = OK) =>
              LET gone == DescendantIds({reqs[u].folderId}, folders)
              IN  /\ \A f \in folders' : f.id \notin gone
                  /\ \A d \in files' : d.folderId \notin gone]_vars

\* C4 witness: a delete has succeeded and removed a folder with a descendant
C4_Witness ==
    \E u \in Users :
        /\ reqs[u].pc = "done" /\ reqs[u].op = "delete"
        /\ reqs[u].res = OK /\ reqs[u].count >= 2

\* C5 (all-or-nothing): no step of a deleteSubtree request other than its
\* successful commit changes any row, so a failed delete leaves the folders
\* and files as they were before the call.
C5_DeleteAllOrNothing ==
    [][\A u \in Users :
          (/\ Steps(u)
           /\ reqs'[u].op = "delete"
           /\ ~(reqs'[u].pc = "done" /\ reqs'[u].res = OK)) => UNCHANGED dbVars]_vars

\* C5 witness: a delete has failed in its transaction while the subtree holds
\* a folder with a child and a file
C5_Witness ==
    /\ \E u \in Users :
          /\ reqs[u].pc = "done" /\ reqs[u].op = "delete" /\ reqs[u].res = SERVER_ERROR
          /\ \E f \in folders : f.parentId = reqs[u].folderId
    /\ files # {}

\* C6 (cascade over files): once an admin's deleteSubtree(A) has completed, A
\* is not still there as a non-root folder with a child that holds an uploaded
\* file: the delete has succeeded and removed A, the child and the file.
C6_CascadeOverFiles ==
    \A u \in Users :
        (/\ reqs[u].pc = "done" /\ reqs[u].op = "delete"
         /\ requireTenantAccess(u, reqs[u].tenantId, "TENANT_ADMIN") = "next") =>
            ~\E A, B \in folders :
                /\ A.id = reqs[u].folderId /\ A.tenantId = reqs[u].tenantId
                /\ A.parentId # NULL
                /\ B.parentId = A.id
                /\ \E d \in files : /\ d.folderId = B.id
                                    /\ \E v \in fileVersions : v.fileId = d.id

IsRoot(id) == \E f \in folders : f.id = id /\ f.parentId = NULL

\* C7 as stated (root protection): deleteSubtree on a folder whose parentId is
\* null always ends with CANNOT_DELETE_ROOT and changes no row.
C7_RootDeleteAlwaysCannotDeleteRoot ==
    [][\A u \in Users :
          (Finishes(u, "delete") /\ IsRoot(reqs'[u].folderId)) =>
              /\ reqs'[u].res = CANNOT_DELETE_ROOT
              /\ UNCHANGED dbVars]_vars

\* C7 as amended: deleteSubtree on a folder whose parentId is null always
\* fails and changes no row; it ends with CANNOT_DELETE_ROOT whenever the
\* caller is an admin of the tenant of the request and the folder is in it,
\* and with the access guard's denial or NOT_FOUND otherwise.
C7_RootProtection ==
    [][\A u \in Users :
          (Finishes(u, "delete") /\ IsRoot(reqs'[u].folderId)) =>
              /\ UNCHANGED dbVars
              /\ IF /\ requireTenantAccess(u, reqs'[u].tenantId, "TENANT_ADMIN") = "next"
                    /\ FolderById(reqs'[u].folderId).tenantId = reqs'[u].tenantId
                 THEN reqs'[u].res = CANNOT_DELETE_ROOT
                 ELSE reqs'[u].res \in
                        {TENANT_ACCESS_DENIED, INSUFFICIENT_PERMISSIONS, NOT_FOUND}]_vars

\* C7 witness: a delete of a root that has descendants ended with CANNOT_DELETE_ROOT
C7_Witness ==
    \E u \in Users :
        /\ reqs[u].pc = "done" /\ reqs[u].op = "delete"
        /\ reqs[u].res = CANNOT_DELETE_ROOT
        /\ IsRoot(reqs[u].folderId)
        /\ \E f \in folders : f.parentId = reqs[u].folderId

\* C8 (rename path invariance): a step of a renameFolder request changes no
\* row but the name of its target folder: every path, parentId and tenantId,
\* and every other folder, file, tenant and member stay as they were.
C8_RenameFrame ==
    [][\A u \in Users :
          (Steps(u) /\ reqs'[u].op = "rename") =>
              /\ UNCHANGED <<tenants, members, files, fileVersions>>
              /\ {f.id : f \in folders'} = FolderIds
              /\ \A f \in folders : \A g \in folders' :
                    f.id = g.id =>
                        /\ g.path = f.path
                        /\ g.parentId = f.parentId
                        /\ g.tenantId = f.tenantId
                        /\ (f.id # reqs'[u].folderId => g.name = f.name)]_vars

\* C8 witness: a rename has succeeded on a folder that has a child, and the
\* folder now carries the new name
C8_Witness ==
    \E u \in Users, f, g \in folders :
        /\ reqs[u].pc = "done" /\ reqs[u].op = "rename" /\ reqs[u].res = OK
        /\ f.id = reqs[u].folderId /\ f.name = reqs[u].name
        /\ g.parentId = f.id

InDescendants(A, B) == \E row \in listDescendants(A.tenantId, A.id) : row.id = B.id
InAncestors(A, B) == \E row \in listAncestors(B.tenantId, B.id) : row.id = A.id

\* C9 as stated (descendant/ancestor duality): for all folders A and B of one
\* tenant, A = B included, B is in listDescendants(A) iff A is in listAncestors(B).
C9_DualityIncludingSelf ==
    \A A, B \in folders :
        A.tenantId = B.tenantId => (InDescendants(A, B) <=> InAncestors(A, B))

\* C9 as amended: for all distinct folders A and B of one tenant, B is in
\* listDescendants(A) iff A is in listAncestors(B); a folder is in its own
\* ancestors and not in its own descendants.
C9_Duality ==
    \A A, B \in folders :
        A.tenantId = B.tenantId =>
            IF A.id = B.id THEN InAncestors(A, A) /\ ~InDescendants(A, A)
            ELSE InDescendants(A, B) <=> InAncestors(A, B)

\* C9 witness: a root with a grandchild, in its descendants at depth 2
C9_Witness ==
    \E A, B \in folders :
        /\ A.parentId = NULL /\ nlevel(B.path) = 3
        /\ \E row \in listDescendants(A.tenantId, A.id) : row.id = B.id /\ row.depth = 2
        /\ InAncestors(A, B)

\* C10 (access guard on mutations): a request creates, renames or deletes
\* folders only in a tenant its user is a member of at that time.
C10_AccessGuardOnMutations ==
    [][\A u \in Users :
          (Steps(u) /\ folders' # folders) =>
              \A f \in (folders' \ folders) \cup (folders \ folders') :
                  \E m \in members : m.userId = u /\ m.tenantId = f.tenantId]_vars

\* the role of user u in a tenant, as a set (empty for a non-member)
RolesIn(u, tenantId) == {m.role : m \in {x \in members : x.userId = u /\ x.tenantId = tenantId}}

\* C11 (elevated role for delete): a deleteSubtree request of a member whose
\* role in the tenant is USER ends at the middleware with
\* INSUFFICIENT_PERMISSIONS, before any lookup, and changes no row; a step of
\* a deleteSubtree request removes folders or files only when its user is a
\* TENANT_ADMIN or higher of the tenant.
C11_ElevatedRoleForDelete ==
    [][\A u \in Users :
          /\ (/\ reqs[u].pc = "idle" /\ reqs'[u].op = "delete"
              /\ RolesIn(u, reqs'[u].tenantId) = {"USER"}) =>
                  /\ reqs'[u].pc = "done"
                  /\ reqs'[u].res = INSUFFICIENT_PERMISSIONS
                  /\ UNCHANGED dbVars
          /\ (/\ Steps(u) /\ reqs'[u].op = "delete"
              /\ (folders' # folders \/ files' # files)) =>
                  \E role \in RolesIn(u, reqs'[u].tenantId) :
                      roleHierarchy(role) >= roleHierarchy("TENANT_ADMIN")]_vars

\* C11 witness: a USER member's delete of an existing non-root folder of the
\* tenant has been turned down, and the folder is still there with its child
C11_Witness ==
    \E u \in Users, f, g \in folders :
        /\ reqs[u].pc = "done" /\ reqs[u].op = "delete"
        /\ reqs[u].res = INSUFFICIENT_PERMISSIONS
        /\ RolesIn(u, reqs[u].tenantId) = {"USER"}
        /\ f.id = reqs[u].folderId /\ f.tenantId = reqs[u].tenantId
        /\ f.parentId # NULL /\ g.parentId = f.id

\* an id no folder has ever had
NeverIssuedFolderId == FolderUuid(0)

\* the three tenant-scoped reads of user u on (tenantId, folderId)
Reads(u, tenantId, folderId) ==
    <<getChildren(u, tenantId, folderId),
      getDescendants(u, tenantId, folderId),
      getAncestors(u, tenantId, folderId)>>

\* C12 (tenant isolation of reads): listChildren, listDescendants and
\* listAncestors on (tenantId, folderId) return only folders of that tenant;
\* for a folder that exists only in another tenant a member of tenantId gets
\* NOT_FOUND, and every caller gets the very answer given for an id that no
\* folder has.
C12_TenantIsolationOfReads ==
    \A u \in Users, t \in TenantIds, id \in KnownFolderIds :
        \A i \in 1..3 :
            LET response == Reads(u, t, id)[i]
            IN  /\ \A row \in response.data :
                      \E f \in folders : f.id = row.id /\ f.tenantId = t
                /\ (\E f \in folders : f.id = id /\ f.tenantId # t) =>
                      /\ response = Reads(u, t, NeverIssuedFolderId)[i]
                      /\ requireTenantAccess(u, t, "undefined") = "next" =>
                            response = ReadResponse(NOT_FOUND, {})

\* C12 witness: a user who is a member of two tenants reads, in one of them,
\* a folder of the other that has a child and a parent there
C12_Witness ==
    \E u \in Users, t \in TenantIds, f, g \in folders :
        /\ requireTenantAccess(u, t, "undefined") = "next"
        /\ requireTenantAccess(u, f.tenantId, "undefined") = "next"
        /\ f.tenantId # t /\ f.parentId # NULL /\ g.parentId = f.id
        /\ getDescendants(u, f.tenantId, f.id).data # {}
        /\ getDescendants(u, t, f.id).status = NOT_FOUND

\* the folders of a tenant that have no parent
RootsOf(tenantId) == {f \in folders : f.tenantId = tenantId /\ f.parentId = NULL}

TenantProvisioned(t) ==
    /\ \E f \in folders : f.id = t.rootFolderId /\ f.tenantId = t.id /\ f.parentId = NULL
    /\ \E m \in members : m.tenantId = t.id /\ m.role = "TENANT_ADMIN"

\* C14 (atomic tenant provisioning): in every state every tenant has its root
\* folder and an admin, and every root folder is the one its tenant's
\* rootFolderId references; a POST /tenants request that does not answer 201
\* changes no row, and the one that answers 201 adds the tenant, the root
\* folder and the creator's membership in one step.
C14_AtomicTenantProvisioning ==
    /\ [](\A t \in tenants : TenantProvisioned(t))
    /\ [](\A f \in folders :
            f.parentId = NULL =>
                \E t \in tenants : t.id = f.tenantId /\ t.rootFolderId = f.id)
    /\ [][\A u \in Users :
            (Steps(u) /\ reqs'[u].op = "createTenant") =>
                IF reqs'[u].pc = "done" /\ reqs'[u].res = CREATED
                THEN /\ Cardinality(tenants') = Cardinality(tenants) + 1
                     /\ Cardinality(folders') = Cardinality(folders) + 1
                     /\ MemberRow(u, reqs'[u].tenantId, "TENANT_ADMIN") \in members' \ members
                ELSE UNCHANGED dbVars]_vars

\* C14 witness: two requests raced for one name; one has provisioned the
\* tenant and the other has failed inside its transaction
C14_Witness ==
    \E u, v \in Users :
        /\ reqs[u].pc = "done" /\ reqs[u].op = "createTenant" /\ reqs[u].res = CREATED
        /\ reqs[v].pc = "done" /\ reqs[v].op = "createTenant"
        /\ reqs[v].res = SERVER_ERROR
        /\ reqs[v].name = reqs[u].name
        /\ \E t \in tenants : t.id = reqs[u].tenantId /\ TenantProvisioned(t)

\* C15 (root path seed): the root folder of every tenant has the one-segment
\* path encodeSegment(tenant.id), the root paths of two tenants differ, and no
\* path of a folder of one tenant is a prefix of, or equal to, a path of a
\* folder of another tenant.
C15_RootPathSeed ==
    /\ \A t \in tenants : \A f \in folders :
          f.id = t.rootFolderId =>
              nlevel(f.path) = 1 /\ f.path = <<encodeSegment(t.id)>>
    /\ \A f, g \in folders :
          f.tenantId # g.tenantId =>
              /\ ~IsDescendantOrEqual(f.path, g.path)
              /\ ~IsDescendantOrEqual(g.path, f.path)

\* C15 witness: a tenant provisioned by POST /tenants and another tenant each
\* hold a subfolder
C15_Witness ==
    /\ nextTenant = 2
    /\ \E f, g \in folders :
          /\ f.tenantId # g.tenantId
          /\ f.parentId # NULL /\ g.parentId # NULL

\* C16 (tenant consistency of the tree): every folder with a parent has the
\* tenantId of its parent folder.
C16_TenantConsistency ==
    \A f \in folders :
        f.parentId # NULL =>
            \A p \in folders : p.id = f.parentId => p.tenantId = f.tenantId

\* C16 witness: a createSubfolder that named a parent of another tenant has
\* been answered NOT_FOUND, and the parent holds a subfolder of its own tenant
C16_Witness ==
    \E u \in Users :
        /\ reqs[u].pc = "done" /\ reqs[u].op = "create" /\ reqs[u].res = NOT_FOUND
        /\ \E p \in folders :
              /\ p.id = reqs[u].folderId /\ p.tenantId # reqs[u].tenantId
              /\ \E f \in folders : f.parentId = p.id

\* number of parentId hops from the folder id to a folder without parent;
\* -1 when the chain leaves the table
RECURSIVE Hops(_, _)
Hops(id, rows) ==
    IF ~\E f \in rows : f.id = id THEN -1
    ELSE LET f == CHOOSE g \in rows : g.id = id
         IN  IF f.parentId = NULL THEN 0
             ELSE LET h == Hops(f.parentId, rows \ {f})
                  IN  IF h = -1 THEN -1 ELSE h + 1

SegmentPrefix(p, q) == Len(p) <= Len(q) /\ \A k \in 1..Len(p) : q[k] = p[k]

\* the ids of a sequence of rows
IdsOf(rowSeq) == {rowSeq[i].id : i \in 1..Len(rowSeq)}

\* C18 (listDescendants): for every folder F the answer holds, once each, the
\* folders of F's tenant whose path properly extends F's path, F excluded,
\* each with depth = nlevel(path) - nlevel(F.path), in ascending order of
\* path, so that every folder of the answer comes after its parent.
C18_ListDescendants ==
    \A F \in folders :
        LET res == descendants(F.tenantId, F.id)
        IN  /\ IdsOf(res) = {g.id : g \in {h \in folders :
                                  /\ h.tenantId = F.tenantId
                                  /\ SegmentPrefix(F.path, h.path)
                                  /\ h.path # F.path}}
            /\ F.id \notin IdsOf(res)
            /\ Cardinality(IdsOf(res)) = Len(res)
            /\ \A i \in 1..Len(res) :
                  /\ res[i].depth = Len(FolderById(res[i].id).path) - Len(F.path)
                  /\ res[i].depth >= 1
                  /\ i < Len(res) => TextLess(res[i].path, res[i + 1].path)
                  /\ \A j \in 1..Len(res) :
                        res[j].id = FolderById(res[i].id).parentId => j < i

\* C18 witness: root -> A -> B, and listDescendants(root) is A at depth 1
\* followed by B at depth 2
C18_Witness ==
    \E R, A, B \in folders :
        /\ R.parentId = NULL /\ A.parentId = R.id /\ B.parentId = A.id
        /\ LET res == descendants(R.tenantId, R.id)
           IN  /\ Len(res) = 2
               /\ res[1].id = A.id /\ res[1].depth = 1
               /\ res[2].id = B.id /\ res[2].depth = 2

\* C19 (listAncestors): for every folder F the answer holds, once each, the
\* folders of F's tenant whose path is a segment-prefix of F's path or F's
\* path itself, each with depth = nlevel(path), in breadcrumb order: the
\* root first, F last, depth strictly increasing.
C19_ListAncestors ==
    \A F \in folders :
        LET res == ancestors(F.tenantId, F.id)
        IN  /\ IdsOf(res) = {g.id : g \in {h \in folders :
                                  /\ h.tenantId = F.tenantId
                                  /\ SegmentPrefix(h.path, F.path)}}
            /\ Cardinality(IdsOf(res)) = Len(res)
            /\ Len(res) >= 1
            /\ FolderById(res[1].id).parentId = NULL
            /\ res[Len(res)].id = F.id
            /\ \A i \in 1..Len(res) :
                  /\ res[i].depth = Len(FolderById(res[i].id).path)
                  /\ i < Len(res) => res[i].depth < res[i + 1].depth

\* C19 witness: root -> A -> B, and listAncestors(B) is root, A, B
C19_Witness ==
    \E R, A, B \in folders :
        /\ R.parentId = NULL /\ A.parentId = R.id /\ B.parentId = A.id
        /\ LET res == ancestors(B.tenantId, B.id)
           IN  /\ Len(res) = 3
               /\ res[1].id = R.id /\ res[1].depth = 1
               /\ res[2].id = A.id /\ res[2].depth = 2
               /\ res[3].id = B.id /\ res[3].depth = 3

\* the ids of the folders that deleteSubtree has removed: every id handed out
\* was inserted, and nothing else removes a folder
DeletedIds == KnownFolderIds \ FolderIds

\* C20 (deleted is terminal): the id of a folder removed by deleteSubtree is
\* never the id of a folder again; every read of it by a member is answered
\* NOT_FOUND; a rename, delete or create-under request that names it and has
\* passed the access guard and the validation of its body is answered
\* NOT_FOUND by its lookup; and no request that names it changes any row.
C20_DeletedIsTerminal ==
    /\ [](\A id \in DeletedIds : \A u \in Users : \A t \in TenantIds :
            requireTenantAccess(u, t, "undefined") = "next" =>
                /\ getChildren(u, t, id) = ReadResponse(NOT_FOUND, {})
                /\ getDescendants(u, t, id) = ReadResponse(NOT_FOUND, {})
                /\ getAncestors(u, t, id) = ReadResponse(NOT_FOUND, {}))
    /\ [][/\ \A id \in DeletedIds : id \notin {f.id : f \in folders'}
          /\ \A u \in Users :
                (Steps(u) /\ reqs'[u].folderId \in DeletedIds) =>
                    /\ UNCHANGED dbVars
                    /\ reqs[u].pc \in {"lookup", "find", "lookupParent"} =>
                          reqs'[u].pc = "done" /\ reqs'[u].res = NOT_FOUND]_vars

\* C20 witness: the admin has deleted a folder, asked again, and the second
\* delete has been answered NOT_FOUND
C20_Witness ==
    \E u \in Users :
        /\ reqs[u].pc = "done" /\ reqs[u].op = "delete" /\ reqs[u].res = NOT_FOUND
        /\ reqs[u].folderId \in DeletedIds

C22_NoDanglingFiles ==
    \A d \in files :
        \E f \in folders : f.id = d.folderId /\ f.tenantId = d.tenantId

\* C22 witness: an upload into a folder and a deleteSubtree of that folder or
\* of an ancestor of it have both been answered; the upload has stored its
\* file and the delete has failed
C22_Witness ==
    \E u, v \in Users :
        /\ reqs[u].pc = "done" /\ reqs[u].op = "delete"
        /\ reqs[u].res = SERVER_ERROR
        /\ reqs[v].pc = "done" /\ reqs[v].op = "upload" /\ reqs[v].res = CREATED
        /\ \E d \in files : \E f, g \in folders :
              /\ d.folderId = reqs[v].folderId /\ f.id = d.folderId
              /\ g.id = reqs[u].folderId
              /\ IsDescendantOrEqual(f.path, g.path)

\* C23 (name validation): a createSubfolder or renameFolder whose name is
\* empty or only blanks is answered at once, before any statement, with 400
\* (or with the denial of the access guard when the guard refuses the caller)
\* and changes no row; every stored folder name is non-empty and equal to its
\* trimmed form.
C23_NameValidation ==
    /\ [](\A f \in folders : f.name # <<>> /\ trim(f.name) = f.name)
    /\ [][\A u \in Users :
            (/\ Steps(u)
             /\ reqs'[u].op \in {"create", "rename"}
             /\ reqs'[u].name = <<>>) =>
                /\ reqs[u].pc = "idle" /\ reqs'[u].pc = "done"
                /\ UNCHANGED dbVars
                /\ \/ reqs'[u].res = BAD_REQUEST
                   \/ /\ reqs'[u].res \in {TENANT_ACCESS_DENIED, INSUFFICIENT_PERMISSIONS}
                      /\ reqs'[u].res =
                            requireTenantAccess(u, reqs'[u].tenantId, "undefined")]_vars

\* C23 witness: a rename of folder "a" to a blank name has been answered 400
\* and the folder keeps its name
C23_Witness ==
    \E u \in Users :
        /\ reqs[u].pc = "done" /\ reqs[u].op = "rename" /\ reqs[u].res = BAD_REQUEST
        /\ reqs[u].name = <<>>
        /\ \E f \in folders : f.id = reqs[u].folderId /\ f.name = <<"a">>

\* a renameFolder is at its pre-check or at its UPDATE, its folder has a
\* parent, and another folder of the same parent and tenant holds the name
RenameHitsCollision(u) ==
    /\ reqs[u].op = "rename" /\ reqs[u].pc \in {"checkDuplicate", "update"}
    /\ \E f, g \in folders :
          /\ f.id = reqs[u].folderId /\ f.tenantId = reqs[u].tenantId
          /\ f.parentId # NULL
          /\ g.id # f.id /\ g.parentId = f.parentId /\ g.tenantId = f.tenantId
          /\ g.name = reqs[u].name

\* C24 (rename collision): a renameFolder of a non-root folder to a name that
\* another folder of the same parent and tenant holds ends with
\* DUPLICATE_NAME (409) and changes no row, at the pre-check and at the
\* UPDATE alike.
C24_RenameCollision ==
    [][\A u \in Users :
          (RenameHitsCollision(u) /\ Steps(u)) =>
              reqs'[u].res = CONFLICT /\ UNCHANGED dbVars]_vars

\* C25 (delete count): a deleteSubtree(F) that answers 200 returns as
\* deletedCount the number of folder rows it removed, and that number is 1
\* plus the number of descendants of F at the time of its transaction.
C25_DeleteCount ==
    [][\A u \in Users :
          (Finishes(u, "delete") /\ reqs'[u].res = OK) =>
              /\ reqs'[u].count = Cardinality(folders \ folders')
              /\ reqs'[u].count =
                    1 + Cardinality(DescendantIds({reqs[u].folderId}, folders)
                                      \ {reqs[u].folderId})]_vars

\* C26 (tenant deletion): a step of a tenant deletion either answers 200 and
\* leaves no file, folder, membership or tenant row of that tenant, or
\* removes nothing; and the deletion asked by an admin of an existing tenant
\* answers 200, also when the tenant holds folders and uploaded files.
C26_TenantDeletion ==
    [][\A u \in Users :
          (Steps(u) /\ reqs'[u].op = "deleteTenant") =>
              LET t == reqs'[u].tenantId
              IN  /\ IF reqs'[u].pc = "done" /\ reqs'[u].res = OK
                     THEN /\ \A f \in folders' : f.tenantId # t
                          /\ \A d \in files' : d.tenantId # t
                          /\ \A m \in members' : m.tenantId # t
                          /\ \A x \in tenants' : x.id # t
                     ELSE UNCHANGED dbVars
                  /\ (/\ reqs'[u].pc = "done"
                      /\ t \in TenantIds
                      /\ requireTenantAccess(u, t, "TENANT_ADMIN") = "next") =>
                        reqs'[u].res = OK]_vars

\* C27 (last admin is kept): whatever the interleaving of leave, member
\* removal and role update requests, every tenant has at least one member
\* with role TENANT_ADMIN.
C27_LastAdminKept ==
    \A t \in tenants : adminCount(t.id) >= 1

\* C28 (path uniqueness): no two folder rows, of the same tenant or of
\* different tenants, have the same path.
C28_PathUniqueness ==
    \A f \in folders : \A g \in folders : f.path = g.path => f = g

\* folders of two tenants, one of them below a root, all on different paths
C28_Witness ==
    /\ \E f \in folders : \E g \in folders : f.tenantId # g.tenantId
    /\ \E f \in folders : \E g \in folders :
          /\ f.parentId = g.id
          /\ f.path # g.path
          /\ IsDescendantOrEqual(f.path, g.path)
    /\ Cardinality({f.path : f \in folders}) >= 3

InSubtreeOf(g, path, tenantId) ==
    LET p == TextToLtree(path)
    IN  /\ g.tenantId = tenantId
        /\ Len(g.path) >= Len(p)
        /\ SubSeq(g.path, 1, Len(p)) = p

\* C30 (frame of subtree delete): a successful deleteSubtree of folder F
\* removes only folders whose path is F's path or has it as a segment-prefix
\* and only files located in those folders; every other folder and file of
\* the tenant, and every row of every other tenant, is unchanged.
C30_DeleteFrame ==
    [][\A u \in Users :
          (Finishes(u, "delete") /\ reqs'[u].res = OK) =>
              /\ folders' \subseteq folders
              /\ \A g \in folders :
                    ~InSubtreeOf(g, reqs[u].path, reqs[u].tenantId) => g \in folders'
              /\ files' \subseteq files
              /\ \A d \in files :
                    (~\E g \in folders : /\ g.id = d.folderId
                                         /\ InSubtreeOf(g, reqs[u].path, reqs[u].tenantId))
                        => d \in files'
              /\ UNCHANGED <<tenants, members, fileVersions>>]_vars

\* a delete has removed a subtree while its parent, the root, the folder of
\* the other tenant and a file uploaded outside the subtree are still there
C30_Witness ==
    \E u \in Users :
        /\ reqs[u].op = "delete" /\ reqs[u].pc = "done" /\ reqs[u].res = OK
        /\ reqs[u].count >= 1
        /\ reqs[u].folderId \notin FolderIds
        /\ \E g \in folders : g.tenantId = reqs[u].tenantId /\ g.parentId # NULL
        /\ \E g \in folders : g.tenantId # reqs[u].tenantId
        /\ \E d \in files : d.tenantId = reqs[u].tenantId

====
